---------------------------- MODULE Spec2Model ----------------------------
(***************************************************************************)
(* h_slcand: userspace daemon that attaches the SLCAN line discipline to   *)
(* a serial device (src/h_slcand.c).                                       *)
(*                                                                         *)
(* The model follows main() statement by statement: one action per system  *)
(* call (or per iteration of the getopt loop), with the local computation  *)
(* that precedes the call folded into it.  The kernel side (the tty, its   *)
(* termios2 and serial_struct settings, the line discipline, the bytes     *)
(* that reached the adapter, the network device) is the state the calls    *)
(* act on; every call may fail.  Signals are delivered by the environment  *)
(* at any point of the main flow.                                          *)
(*                                                                         *)
(* C strings are tuples of one-character strings; the NULL pointer is the  *)
(* value NULL.  A C long (64 bit) and an unsigned int (32 bit) are tuples  *)
(* of 16-bit limbs, least significant first, since TLC's integers have 32  *)
(* bits only.                                                              *)
(***************************************************************************)
EXTENDS Integers, Sequences, FiniteSets, TLC

(***************************************************************************)
(* Bounds of the exploration.                                              *)
(***************************************************************************)
\* a short write(2) transmits between 1 and MaxShortWrite bytes of a command
MaxShortWrite == 1

(***************************************************************************)
(* Program and platform constants.                                         *)
(***************************************************************************)
FLOW_NONE == 0
FLOW_HW == 1
FLOW_SW == 2
EXIT_SUCCESS == 0
EXIT_FAILURE == 1
SIGINT == 2
SIGUSR1 == 10
SIGALRM == 14
SIGTERM == 15
SIGCHLD == 17
\* sizeof(ifr.ifr_newname)
IFNAMSIZ == 16
\* longest accepted bit-timing string
BTR_MAX == 8
\* 16-bit limb base
B16 == 256 * 256
\* 6000000 = MAX_SPEED_HI * 65536 + MAX_SPEED_LO
MAX_SPEED_HI == 91
MAX_SPEED_LO == 36224
ERANGE == 34

NULL == <<"NULL">>
CR == "\r"
N_TTY == "N_TTY"
N_SLCAN == "N_SLCAN"
Uninit == [uninitialized |-> TRUE]
NoStatus == -1
NoSignal == 0

Signals == {SIGINT, SIGTERM, SIGALRM, SIGCHLD}

devprefix == <<"/", "d", "e", "v", "/">>

(***************************************************************************)
(* strlen, strstr(tty, devprefix) == tty                                   *)
(***************************************************************************)
strlen(s) == Len(s)

HasDevPrefix(s) ==
  /\ Len(s) >= Len(devprefix)
  /\ SubSeq(s, 1, Len(devprefix)) = devprefix

(***************************************************************************)
(* strtol(nptr, NULL, 10) on a 64-bit long, and the conversion of its      *)
(* result to unsigned int.  A magnitude is four 16-bit limbs.              *)
(***************************************************************************)
DigitChars == <<"0", "1", "2", "3", "4", "5", "6", "7", "8", "9">>

IsDigit(c) == \E i \in 1..10 : DigitChars[i] = c

DigitVal(c) == (CHOOSE i \in 1..10 : DigitChars[i] = c) - 1

ZeroMag == <<0, 0, 0, 0>>
LONG_MAX_MAG == <<65535, 65535, 65535, 32767>>
LONG_MIN_MAG == <<0, 0, 0, 32768>>

\* mag * m + d (m at most 10000), with the carry out of the 64 bits
MulAdd(mag, m, d) ==
  LET t1 == mag[1] * m + d
      t2 == mag[2] * m + (t1 \div B16)
      t3 == mag[3] * m + (t2 \div B16)
      t4 == mag[4] * m + (t3 \div B16)
  IN  [mag |-> <<t1 % B16, t2 % B16, t3 % B16, t4 % B16>>, carry |-> t4 \div B16]

\* the number of decimal digits s has from position i on
DigitRun(s, i) ==
  Cardinality({k \in i..Len(s) : \A j \in i..k : IsDigit(s[j])})

Pow10 == <<10, 100, 1000, 10000>>

\* the value of the k <= 4 digits of s at position i
ChunkVal(s, i, k) ==
  LET d(j) == IF j <= k THEN DigitVal(s[i + j - 1]) * (IF j = k THEN 1 ELSE Pow10[k - j])
              ELSE 0
  IN  d(1) + d(2) + d(3) + d(4)

\* the magnitude of the n digits of s from position i on, accumulated four
\* digits at a time
RECURSIVE AccDigits(_, _, _, _)
AccDigits(s, i, n, acc) ==
  IF n = 0
  THEN acc
  ELSE LET k == IF n < 4 THEN n ELSE 4
           step == MulAdd(acc.mag, Pow10[k], ChunkVal(s, i, k))
       IN  AccDigits(s, i + k, n - k,
                     [mag |-> step.mag, over |-> acc.over \/ step.carry > 0])

\* the value strtol returns and the errno it leaves
strtol(s) ==
  LET neg   == Len(s) > 0 /\ s[1] = "-"
      start == IF Len(s) > 0 /\ s[1] \in {"-", "+"} THEN 2 ELSE 1
      acc   == AccDigits(s, start, DigitRun(s, start), [mag |-> ZeroMag, over |-> FALSE])
      big   == \/ acc.over
               \/ ~neg /\ acc.mag[4] >= 32768
               \/ neg /\ acc.mag[4] > 32768
               \/ neg /\ acc.mag[4] = 32768
                      /\ <<acc.mag[1], acc.mag[2], acc.mag[3]>> # <<0, 0, 0>>
  IN  IF big
      THEN [errno |-> ERANGE, neg |-> neg,
            mag |-> IF neg THEN LONG_MIN_MAG ELSE LONG_MAX_MAG]
      ELSE [errno |-> 0, neg |-> neg /\ acc.mag # ZeroMag, mag |-> acc.mag]

\* (unsigned int) of a long: the low 32 bits of its two's complement
ToUInt(v) ==
  IF ~v.neg THEN <<v.mag[1], v.mag[2]>>
  ELSE IF v.mag[1] = 0
       THEN <<0, (B16 - v.mag[2]) % B16>>
       ELSE <<B16 - v.mag[1], B16 - 1 - v.mag[2]>>

\* uart_speed > 6000000
ExceedsMaxSpeed(u) ==
  \/ u[2] > MAX_SPEED_HI
  \/ u[2] = MAX_SPEED_HI /\ u[1] > MAX_SPEED_LO


(***************************************************************************)
(* The command lines and the devices explored.  A command line is the      *)
(* options in the order getopt meets them, then the positional arguments.  *)
(***************************************************************************)
Opt(o, a) == [opt |-> o, arg |-> a]

TtyBare == <<"t", "t", "y", "0">>
TtyFull == devprefix \o TtyBare
IfName == <<"c", "a", "n", "0">>
LongIfName == [i \in 1..IFNAMSIZ |-> "x"]
KernelIfName == <<"s", "l", "c", "a", "n", "0">>
Btr == <<"1", "A">>
LongBtr == [i \in 1..(BTR_MAX + 1) |-> "1"]

\* -S arguments: 115200, 0, 6000000, 6000128, 2^32 + 115200,
\* -(2^32 - 115200), -1 and a value beyond the range of a long
S115200 == <<"1", "1", "5", "2", "0", "0">>
S6000000 == <<"6", "0", "0", "0", "0", "0", "0">>
S6000001 == <<"6", "0", "0", "0", "0", "0", "1">>
SWrap == <<"4", "2", "9", "5", "0", "8", "2", "4", "9", "6">>
SNegWrap == <<"-", "4", "2", "9", "4", "8", "5", "2", "0", "9", "6">>
SMinus1 == <<"-", "1">>
SHuge == [i \in 1..20 |-> "9"]
SpeedArgs == {S115200, <<"0">>, S6000000, S6000001, SWrap, SNegWrap, SMinus1, SHuge}

BaseTios(ixon, ixoff, crtscts) ==
  [ixon |-> ixon, ixoff |-> ixoff, crtscts |-> crtscts, cbaud |-> "B9600",
   ispeed |-> <<9600, 0>>, ospeed |-> <<9600, 0>>]

\* serial_get, serial_set: whether the driver serves TIOCGSERIAL, TIOCSSERIAL
Device(ixon, ixoff, crtscts, lowlat, get, set) ==
  [tios |-> BaseTios(ixon, ixoff, crtscts),
   serial |-> [low_latency |-> lowlat, rest |-> "orig"],
   serial_get |-> get, serial_set |-> set]

DefaultDevice == Device(FALSE, FALSE, FALSE, FALSE, TRUE, TRUE)

Input(opts, pos, dev) == [opts |-> opts, pos |-> pos, dev |-> dev]

\* the subsequence of seq whose options are in the set keep
Pick(seq, keep) == SelectSeq(seq, LAMBDA o : o.opt \in keep)

\* every combination of the primer options, in background mode
PrimerInputs ==
  { Input(Pick(<<Opt("o", NULL), Opt("f", NULL), Opt("l", NULL),
                 Opt("s", <<"6">>), Opt("b", Btr)>>, keep),
          <<TtyBare>>, DefaultDevice) : keep \in SUBSET {"o", "f", "l", "s", "b"} }

\* foreground or background, with or without close command and rename
LifecycleInputs ==
  { Input(Pick(<<Opt("o", NULL), Opt("c", NULL), Opt("F", NULL)>>, keep \cup {"o"}),
          pos, DefaultDevice) :
      keep \in SUBSET {"c", "F"},
      pos \in {<<TtyBare>>, <<TtyFull>>, <<TtyBare, IfName>>} }

\* every flow-control request on every baseline of the device
LineInputs ==
  { Input(Pick(<<Opt("S", S115200), Opt("t", t)>>, IF t = NULL THEN {"S"} ELSE {"S", "t"}),
          <<TtyBare>>, Device(ixon, ixoff, crtscts, lowlat, get, set)) :
      t \in {NULL, <<"h", "w">>, <<"s", "w">>},
      ixon \in BOOLEAN, ixoff \in BOOLEAN, crtscts \in BOOLEAN, lowlat \in BOOLEAN,
      get \in BOOLEAN, set \in BOOLEAN }

\* every UART speed argument
SpeedInputs ==
  { Input(<<Opt("S", v), Opt("F", NULL)>>, <<TtyBare>>, DefaultDevice) : v \in SpeedArgs }

\* rejected command lines
InvalidInputs ==
  { Input(opts, <<TtyBare>>, DefaultDevice) :
      opts \in { <<Opt("s", <<"6", "6">>)>>,
                 <<Opt("o", NULL), Opt("s", <<"6", "6">>), Opt("F", NULL)>>,
                 <<Opt("b", LongBtr)>>,
                 <<Opt("t", <<"x", "x">>)>>,
                 <<Opt("t", <<"h", "w", "x">>), Opt("s", <<"6">>)>>,
                 <<Opt("h", NULL)>> } }
  \cup { Input(<<Opt("o", NULL)>>, <<>>, DefaultDevice),
         Input(<<>>, <<>>, DefaultDevice),
         Input(<<Opt("o", NULL), Opt("F", NULL)>>, <<TtyBare, LongIfName>>, DefaultDevice) }

Inputs == PrimerInputs \cup LifecycleInputs \cup LineInputs \cup SpeedInputs
            \cup InvalidInputs

(***************************************************************************)
(* State.                                                                  *)
(***************************************************************************)
VARIABLES
  argv,                   \* the command line (never changes)
  dev_orig,               \* the device's settings before the run (never changes)
  pc,                     \* position of the main flow
  optind,                 \* index of the next option
  send_open, send_close, send_listen, send_read_status_flags,
  speed, btr, uart_speed, flow_type, run_as_daemon,
  tty, name, ttypath,
  fd,                     \* -1, or the open descriptor
  tios, tios_old,         \* main's two termios2 structures
  snew,                   \* main's serial_struct
  ifr,                    \* [ifr_name, ifr_newname]
  slcand_running, exit_code,
  handlers,               \* the signals child_handler is installed for
  dev_tios, dev_serial, dev_ldisc,   \* the tty as the kernel holds it
  dev_written,            \* the bytes that reached the adapter
  netdev,                 \* name of the CAN network device, NULL while none
  exit_status,            \* status the process exited with
  killed_by,              \* signal whose default action ended the process
  parent_status,          \* status of the process daemon() forked from
  applied,                \* the configuration TCSETS2 applied at setup
  wlog,                   \* the buffers handed to write(2), in order
  events,                 \* the calls made so far, in order
  trigger,                \* the signal that cleared a set running flag
  handler_logged,         \* child_handler has called the logger
  signalled               \* child_handler has run with both handlers installed

optVars == <<optind, send_open, send_close, send_listen, send_read_status_flags,
             speed, btr, uart_speed, flow_type, run_as_daemon, tty, name, ttypath>>
sigVars == <<slcand_running, exit_code, trigger, handler_logged, signalled>>
devVars == <<dev_tios, dev_serial, dev_ldisc, dev_written, netdev>>
locVars == <<fd, tios, tios_old, snew, ifr>>
inVars == <<argv, dev_orig>>

vars == <<argv, dev_orig, pc, optind, send_open, send_close, send_listen,
          send_read_status_flags, speed, btr, uart_speed, flow_type, run_as_daemon,
          tty, name, ttypath, fd, tios, tios_old, snew, ifr, slcand_running, exit_code,
          handlers, dev_tios, dev_serial, dev_ldisc, dev_written, netdev,
          exit_status, killed_by, parent_status, applied, wlog, events, trigger, handler_logged,
          signalled>>

Init ==
  /\ \E in \in Inputs :
       /\ argv = [opts |-> in.opts, pos |-> in.pos]
       /\ dev_orig = in.dev
       /\ dev_tios = in.dev.tios
       /\ dev_serial = in.dev.serial
  /\ pc = "getopt"
  /\ optind = 1
  /\ send_open = 0 /\ send_close = 0 /\ send_listen = 0
  /\ send_read_status_flags = 0
  /\ speed = NULL /\ btr = NULL
  /\ uart_speed = <<0, 0>>
  /\ flow_type = FLOW_NONE
  /\ run_as_daemon = 1
  /\ tty = NULL /\ name = NULL
  /\ ttypath = <<>>
  /\ fd = -1
  /\ tios = Uninit /\ tios_old = Uninit /\ snew = Uninit
  /\ ifr = [ifr_name |-> <<>>, ifr_newname |-> <<>>]
  /\ slcand_running = 0
  /\ exit_code = 0
  /\ handlers = {}
  /\ dev_ldisc = N_TTY
  /\ dev_written = <<>>
  /\ netdev = NULL
  /\ exit_status = NoStatus
  /\ killed_by = NoSignal
  /\ parent_status = NoStatus
  /\ applied = Uninit
  /\ wlog = <<>>
  /\ events = <<>>
  /\ trigger = NoSignal
  /\ handler_logged = FALSE
  /\ signalled = FALSE

\* mutant: a failure does not leave, it goes on with Teardown
Exit_IntoTeardown(status) ==
  /\ pc' = "detach"
  /\ exit_status' = status

(***************************************************************************)
(* exit(status), from the main flow.                                       *)
(***************************************************************************)
Exit(status) ==
  /\ pc' = "exited"
  /\ exit_status' = status

\* print_usage ends in exit(EXIT_FAILURE)
print_usage == Exit(EXIT_FAILURE)

(***************************************************************************)
(* The argument checks of the getopt loop and of the positional arguments. *)
(***************************************************************************)
SpeedCodeTooLong(optarg) == strlen(optarg) > 1

BtrTooLong(optarg) == strlen(optarg) > BTR_MAX

FlowTypeOf(optarg) ==
  IF optarg = <<"h", "w">> THEN FLOW_HW
  ELSE IF optarg = <<"s", "w">> THEN FLOW_SW
  ELSE -1

UartSpeedRejected(parsed) == parsed.errno # 0 \/ ExceedsMaxSpeed(ToUInt(parsed))

\* mutant: the length test is off by one
NameTooLong_OffByOne(n) == n # NULL /\ strlen(n) > IFNAMSIZ

NameTooLong(n) == n # NULL /\ strlen(n) > IFNAMSIZ - 1

(***************************************************************************)
(* One iteration of the getopt loop.                                       *)
(***************************************************************************)
\* the body of the switch for option opt: the option variables after it, and
\* whether it ended in print_usage or exit
OptionCase(opt, optarg) ==
  LET parsed == strtol(optarg)
  IN  [send_open |-> IF opt = "o" THEN 1 ELSE send_open,
       send_close |-> IF opt = "c" THEN 1 ELSE send_close,
       send_read_status_flags |-> IF opt = "f" THEN 1 ELSE send_read_status_flags,
       send_listen |-> IF opt = "l" THEN 1 ELSE send_listen,
       speed |-> IF opt = "s" THEN optarg ELSE speed,
       uart_speed |-> IF opt = "S" THEN ToUInt(parsed) ELSE uart_speed,
       flow_type |-> IF opt = "t" /\ FlowTypeOf(optarg) # -1
                     THEN FlowTypeOf(optarg) ELSE flow_type,
       btr |-> IF opt = "b" THEN optarg ELSE btr,
       run_as_daemon |-> IF opt = "F" THEN 0 ELSE run_as_daemon,
       rejected |-> CASE opt = "s" -> SpeedCodeTooLong(optarg)
                      [] opt = "S" -> UartSpeedRejected(parsed)
                      [] opt = "t" -> FlowTypeOf(optarg) = -1
                      [] opt = "b" -> BtrTooLong(optarg)
                      [] opt \in {"o", "c", "f", "l", "F"} -> FALSE
                      [] OTHER -> TRUE]

GetoptStep ==
  /\ pc = "getopt"
  /\ \/ \* getopt returns -1
        /\ optind > Len(argv.opts)
        /\ pc' = "positional"
        /\ UNCHANGED <<optind, send_open, send_close, send_listen,
                       send_read_status_flags, speed, btr, uart_speed, flow_type,
                       run_as_daemon, exit_status>>
     \/ /\ optind <= Len(argv.opts)
        /\ \E new \in {OptionCase(argv.opts[optind].opt, argv.opts[optind].arg)} :
             /\ optind' = optind + 1
             /\ send_open' = new.send_open
             /\ send_close' = new.send_close
             /\ send_read_status_flags' = new.send_read_status_flags
             /\ send_listen' = new.send_listen
             /\ speed' = new.speed
             /\ uart_speed' = new.uart_speed
             /\ flow_type' = new.flow_type
             /\ btr' = new.btr
             /\ run_as_daemon' = new.run_as_daemon
             /\ pc' = IF new.rejected THEN "exited" ELSE pc
             /\ exit_status' = IF new.rejected THEN EXIT_FAILURE ELSE exit_status
  /\ UNCHANGED <<inVars, locVars, sigVars, devVars, handlers, killed_by, parent_status, applied,
                 wlog, events, tty, name, ttypath>>

(***************************************************************************)
(* The positional arguments and the device path.                           *)
(***************************************************************************)
ParsePositional ==
  /\ pc = "positional"
  /\ LET a1 == IF Len(argv.pos) >= 1 THEN argv.pos[1] ELSE NULL
         a2 == IF Len(argv.pos) >= 2 THEN argv.pos[2] ELSE NULL
     IN  IF a1 = NULL
         THEN /\ tty' = a1
              /\ print_usage
              /\ UNCHANGED <<name, ttypath>>
         ELSE /\ tty' = a1
              /\ name' = a2
              /\ IF NameTooLong(a2)
                 THEN /\ print_usage
                      /\ UNCHANGED ttypath
                 ELSE /\ ttypath' = IF HasDevPrefix(a1) THEN a1 ELSE devprefix \o a1
                      /\ pc' = "open"
                      /\ UNCHANGED exit_status
  /\ UNCHANGED <<inVars, optind, send_open, send_close, send_listen,
                 send_read_status_flags, speed, btr, uart_speed, flow_type,
                 run_as_daemon, locVars, sigVars, devVars, handlers, killed_by, parent_status,
                 applied, wlog, events>>


(***************************************************************************)
(* Line Setup: open, the two TCGETS2, the low-latency flag, TCSETS2.       *)
(***************************************************************************)
Log(e) == events' = Append(events, e)

OpenTty ==
  /\ pc = "open"
  /\ \/ /\ fd' = 3
        /\ pc' = "tcgets2"
        /\ Log("open")
        /\ UNCHANGED exit_status
     \/ /\ Exit(EXIT_FAILURE)
        /\ Log("open!")
        /\ UNCHANGED fd
  /\ UNCHANGED <<inVars, optVars, sigVars, devVars, handlers, killed_by, parent_status, applied,
                 wlog, tios, tios_old, snew, ifr>>

\* mutant: the second TCGETS2, which takes the snapshot, is left out
GetAttributes_NoSnapshot ==
  /\ pc = "tcgets2"
  /\ \/ /\ tios' = dev_tios
        /\ pc' = "tiocgserial"
        /\ Log("tcgets2")
        /\ UNCHANGED exit_status
     \/ /\ Exit(EXIT_FAILURE)
        /\ Log("tcgets2!")
        /\ UNCHANGED tios
  /\ UNCHANGED <<inVars, optVars, sigVars, devVars, handlers, killed_by, parent_status,
                 applied, wlog, fd, tios_old, snew, ifr>>

GetAttributes ==
  /\ pc = "tcgets2"
  /\ \/ /\ tios' = dev_tios
        /\ pc' = "snapshot"
        /\ Log("tcgets2")
        /\ UNCHANGED exit_status
     \/ /\ Exit(EXIT_FAILURE)
        /\ Log("tcgets2!")
        /\ UNCHANGED tios
  /\ UNCHANGED <<inVars, optVars, sigVars, devVars, handlers, killed_by, parent_status, applied,
                 wlog, fd, tios_old, snew, ifr>>

SaveOldConfiguration ==
  /\ pc = "snapshot"
  /\ \/ /\ tios_old' = dev_tios
        /\ pc' = "tiocgserial"
        /\ Log("snapshot")
        /\ UNCHANGED exit_status
     \/ /\ Exit(EXIT_FAILURE)
        /\ Log("snapshot!")
        /\ UNCHANGED tios_old
  /\ UNCHANGED <<inVars, optVars, sigVars, devVars, handlers, killed_by, parent_status, applied,
                 wlog, fd, tios, snew, ifr>>

\* what an uninitialized serial_struct may hold
SerialValues == [low_latency : BOOLEAN, rest : {"orig", "garbage"}]

\* mutant: a failed TIOCGSERIAL ends the run
GetSerial_Fatal ==
  /\ pc = "tiocgserial"
  /\ \/ /\ dev_orig.serial_get
        /\ snew' = dev_serial
        /\ pc' = "tiocsserial"
        /\ Log("tiocgserial")
        /\ UNCHANGED exit_status
     \/ /\ ~dev_orig.serial_get
        /\ Exit(EXIT_FAILURE)
        /\ Log("tiocgserial!")
        /\ UNCHANGED snew
  /\ UNCHANGED <<inVars, optVars, sigVars, devVars, handlers, killed_by, parent_status,
                 applied, wlog, fd, tios, tios_old, ifr>>

GetSerial ==
  /\ pc = "tiocgserial"
  /\ \/ /\ dev_orig.serial_get
        /\ snew' = dev_serial
        /\ Log("tiocgserial")
     \/ /\ ~dev_orig.serial_get
        /\ snew' \in SerialValues
        /\ Log("tiocgserial!")
  /\ pc' = "tiocsserial"
  /\ UNCHANGED <<inVars, optVars, sigVars, devVars, handlers, killed_by, parent_status, applied,
                 wlog, fd, tios, tios_old, ifr, exit_status>>

SetSerial ==
  /\ pc = "tiocsserial"
  /\ snew' = [snew EXCEPT !.low_latency = TRUE]
  /\ \/ /\ dev_orig.serial_set
        /\ dev_serial' = snew'
        /\ Log("tiocsserial")
     \/ /\ ~dev_orig.serial_set
        /\ Log("tiocsserial!")
        /\ UNCHANGED dev_serial
  /\ pc' = "tcsets2"
  /\ UNCHANGED <<inVars, optVars, sigVars, dev_tios, dev_ldisc, dev_written, netdev,
                 handlers, killed_by, parent_status, applied, wlog, fd, tios, tios_old, ifr,
                 exit_status>>

\* lines 255-268: the configuration main assembles from the baseline t
AssembleTios(t, speed_, flow) ==
  LET reset == [t EXCEPT !.ixoff = FALSE, !.crtscts = FALSE]
      baud  == [reset EXCEPT !.cbaud = "BOTHER", !.ispeed = speed_, !.ospeed = speed_]
  IN  IF flow = FLOW_HW THEN [baud EXCEPT !.crtscts = TRUE]
      ELSE IF flow = FLOW_SW THEN [baud EXCEPT !.ixon = TRUE, !.ixoff = TRUE]
      ELSE baud

ApplyConfiguration ==
  /\ pc = "tcsets2"
  /\ tios' = AssembleTios(tios, uart_speed, flow_type)
  /\ \/ /\ dev_tios' = tios'
        /\ applied' = tios'
        /\ pc' = "write_speed"
        /\ Log("tcsets2")
        /\ UNCHANGED <<fd, exit_status>>
     \/ /\ fd' = -1
        /\ Exit(EXIT_FAILURE)
        /\ Log("tcsets2!")
        /\ UNCHANGED <<dev_tios, applied>>
  /\ UNCHANGED <<inVars, optVars, sigVars, dev_serial, dev_ldisc, dev_written, netdev,
                 handlers, killed_by, parent_status, wlog, tios_old, snew, ifr>>

(***************************************************************************)
(* write(fd, buf, strlen(buf)): the counts it may return.  The descriptor  *)
(* is non-blocking, so a write may transmit only the head of the buffer.   *)
(***************************************************************************)
Min(a, b) == IF a < b THEN a ELSE b

WriteResults(len) == {-1, 0} \cup (1..Min(MaxShortWrite, len)) \cup {len}

\* the test the code makes on the count write returned
WriteFailed(n, len) == n <= 0

\* one command written from position here, continuing at position next
WriteCommand(here, next, buf, ev) ==
  /\ pc = here
  /\ wlog' = Append(wlog, buf)
  /\ \E n \in WriteResults(strlen(buf)) :
       IF WriteFailed(n, strlen(buf))
       THEN /\ Exit(EXIT_FAILURE)
            /\ Log(ev \o "!")
            /\ UNCHANGED dev_written
       ELSE /\ dev_written' = dev_written \o SubSeq(buf, 1, n)
            /\ pc' = next
            /\ Log(ev)
            /\ UNCHANGED exit_status

\* a command that was not requested
SkipCommand(here, next) ==
  /\ pc = here
  /\ pc' = next
  /\ UNCHANGED <<wlog, dev_written, events, exit_status>>

(***************************************************************************)
(* Protocol Primer, lines 277-313.                                         *)
(***************************************************************************)
SpeedCommand(code) == <<"C", CR, "S">> \o code \o <<CR>>
BtrCommand(b) == <<"C", CR, "s">> \o b \o <<CR>>
StatusCommand == <<"F", CR>>
ListenCommand == <<"L", CR>>
OpenCommand == <<"O", CR>>
CloseCommand == <<"C", CR>>

\* mutant: open is tested before listen-only
OpenModeCommand_OpenFirst(listen, open) ==
  IF open # 0 THEN OpenCommand
  ELSE IF listen # 0 THEN ListenCommand
  ELSE <<>>

\* lines 301-313: which of listen-only and open is sent; <<>> when neither
OpenModeCommand(listen, open) ==
  IF listen # 0 THEN ListenCommand
  ELSE IF open # 0 THEN OpenCommand
  ELSE <<>>

primerFrame == <<inVars, optVars, sigVars, dev_tios, dev_serial, dev_ldisc, netdev,
                 handlers, killed_by, parent_status, applied, locVars>>

WriteSpeed ==
  /\ \/ speed # NULL /\ WriteCommand("write_speed", "write_btr", SpeedCommand(speed), "write_S")
     \/ speed = NULL /\ SkipCommand("write_speed", "write_btr")
  /\ UNCHANGED primerFrame

WriteBtr ==
  /\ \/ btr # NULL /\ WriteCommand("write_btr", "write_status", BtrCommand(btr), "write_s")
     \/ btr = NULL /\ SkipCommand("write_btr", "write_status")
  /\ UNCHANGED primerFrame

WriteStatus ==
  /\ \/ /\ send_read_status_flags # 0
        /\ WriteCommand("write_status", "write_mode", StatusCommand, "write_F")
     \/ /\ send_read_status_flags = 0
        /\ SkipCommand("write_status", "write_mode")
  /\ UNCHANGED primerFrame

WriteMode ==
  /\ LET cmd == OpenModeCommand(send_listen, send_open)
     IN  \/ /\ cmd # <<>>
            /\ WriteCommand("write_mode", "attach", cmd,
                            IF cmd = ListenCommand THEN "write_L" ELSE "write_O")
         \/ /\ cmd = <<>>
            /\ SkipCommand("write_mode", "attach")
  /\ UNCHANGED primerFrame

(***************************************************************************)
(* Discipline Attacher, lines 315-349.                                     *)
(***************************************************************************)
AttachDiscipline ==
  /\ pc = "attach"
  /\ \/ /\ dev_ldisc' = N_SLCAN
        /\ netdev' = KernelIfName
        /\ pc' = "ifname"
        /\ Log("attach")
        /\ UNCHANGED exit_status
     \/ /\ Exit(EXIT_FAILURE)
        /\ Log("attach!")
        /\ UNCHANGED <<dev_ldisc, netdev>>
  /\ UNCHANGED <<inVars, optVars, sigVars, dev_tios, dev_serial, dev_written,
                 handlers, killed_by, parent_status, applied, wlog, locVars>>

QueryName ==
  /\ pc = "ifname"
  /\ \/ /\ ifr' = [ifr EXCEPT !.ifr_name = netdev]
        /\ pc' = "rename"
        /\ Log("ifname")
        /\ UNCHANGED exit_status
     \/ /\ Exit(EXIT_FAILURE)
        /\ Log("ifname!")
        /\ UNCHANGED ifr
  /\ UNCHANGED <<inVars, optVars, sigVars, devVars, handlers, killed_by, parent_status, applied,
                 wlog, fd, tios, tios_old, snew>>

Rename ==
  /\ pc = "rename"
  /\ \/ \* no rename requested
        /\ name = NULL
        /\ pc' = "daemonize"
        /\ UNCHANGED <<ifr, netdev, events, exit_status>>
     \/ \* socket() failed: reported, and the flow continues
        /\ name # NULL
        /\ pc' = "daemonize"
        /\ Log("socket!")
        /\ UNCHANGED <<ifr, netdev, exit_status>>
     \/ \* SIOCSIFNAME failed
        /\ name # NULL
        /\ ifr' = [ifr EXCEPT !.ifr_newname = SubSeq(name, 1, Min(strlen(name), IFNAMSIZ - 1))]
        /\ Exit(EXIT_FAILURE)
        /\ Log("rename!")
        /\ UNCHANGED netdev
     \/ \* renamed
        /\ name # NULL
        /\ ifr' = [ifr EXCEPT !.ifr_newname = SubSeq(name, 1, Min(strlen(name), IFNAMSIZ - 1))]
        /\ netdev' = ifr'.ifr_newname
        /\ pc' = "daemonize"
        /\ Log("rename")
        /\ UNCHANGED exit_status
  /\ UNCHANGED <<inVars, optVars, sigVars, dev_tios, dev_serial, dev_ldisc,
                 dev_written, handlers, killed_by, parent_status, applied, wlog, fd, tios, tios_old,
                 snew>>

(***************************************************************************)
(* Run Supervisor, lines 351-366.                                          *)
(***************************************************************************)
\* daemon(0, 0) forks: the parent leaves with _exit(0) and the flow goes on in
\* the child; it fails when fork does, or afterwards in the child
Daemonize ==
  /\ pc = "daemonize"
  /\ run_as_daemon # 0
  /\ \/ /\ pc' = "set_running"
        /\ parent_status' = EXIT_SUCCESS
        /\ Log("daemon")
        /\ UNCHANGED exit_status
     \/ /\ Exit(EXIT_FAILURE)
        /\ parent_status' \in {parent_status, EXIT_SUCCESS}
        /\ Log("daemon!")
  /\ UNCHANGED <<inVars, optVars, sigVars, devVars, handlers, killed_by, applied,
                 wlog, locVars>>

InstallSigint ==
  /\ pc = "daemonize"
  /\ run_as_daemon = 0
  /\ handlers' = handlers \cup {SIGINT}
  /\ pc' = "signal_term"
  /\ Log("signal_int")
  /\ UNCHANGED <<inVars, optVars, sigVars, devVars, killed_by, parent_status, applied, wlog, locVars,
                 exit_status>>

InstallSigterm ==
  /\ pc = "signal_term"
  /\ handlers' = handlers \cup {SIGTERM}
  /\ pc' = "set_running"
  /\ Log("signal_term")
  /\ UNCHANGED <<inVars, optVars, sigVars, devVars, killed_by, parent_status, applied, wlog, locVars,
                 exit_status>>

SetRunning ==
  /\ pc = "set_running"
  /\ slcand_running' = 1
  /\ pc' = "loop"
  /\ Log("run")
  /\ UNCHANGED <<inVars, optVars, exit_code, trigger, handler_logged, signalled,
                 devVars, handlers, killed_by, parent_status, applied, wlog, locVars, exit_status>>

\* the test of the while loop; when it ends, the "stopping" message of line 369
LoopTest ==
  /\ pc = "loop"
  /\ \/ /\ slcand_running # 0
        /\ pc' = "sleep"
        /\ UNCHANGED events
     \/ /\ slcand_running = 0
        /\ pc' = "detach"
        /\ Log("stopping")
  /\ UNCHANGED <<inVars, optVars, sigVars, devVars, handlers, killed_by, parent_status,
                 applied, wlog, locVars, exit_status>>

\* sleep(1) returns, after a second or when a handler has run
Sleep ==
  /\ pc = "sleep"
  /\ pc' = "loop"
  /\ UNCHANGED <<inVars, optVars, sigVars, devVars, handlers, killed_by, parent_status, applied,
                 wlog, events, locVars, exit_status>>

(***************************************************************************)
(* Teardown, lines 368-395.                                                *)
(***************************************************************************)
DetachDiscipline ==
  /\ pc = "detach"
  /\ \/ /\ dev_ldisc' = N_TTY
        /\ netdev' = NULL
        /\ pc' = "write_close"
        /\ Log("detach")
        /\ UNCHANGED exit_status
     \/ /\ Exit(EXIT_FAILURE)
        /\ Log("detach!")
        /\ UNCHANGED <<dev_ldisc, netdev>>
  /\ UNCHANGED <<inVars, optVars, sigVars, dev_tios, dev_serial, dev_written,
                 handlers, killed_by, parent_status, applied, wlog, locVars>>

\* mutant: the close command is written whether or not -c was given
WriteClose_Unrequested ==
  /\ WriteCommand("write_close", "restore", CloseCommand, "write_C")
  /\ UNCHANGED primerFrame

WriteClose ==
  /\ \/ send_close # 0 /\ WriteCommand("write_close", "restore", CloseCommand, "write_C")
     \/ send_close = 0 /\ SkipCommand("write_close", "restore")
  /\ UNCHANGED primerFrame

RestoreConfiguration ==
  /\ pc = "restore"
  /\ \/ /\ dev_tios' = tios_old
        /\ pc' = "finish"
        /\ Log("restore")
        /\ UNCHANGED exit_status
     \/ /\ Exit(EXIT_FAILURE)
        /\ Log("restore!")
        /\ UNCHANGED dev_tios
  /\ UNCHANGED <<inVars, optVars, sigVars, dev_serial, dev_ldisc, dev_written, netdev,
                 handlers, killed_by, parent_status, applied, wlog, locVars>>

\* closelog, the final message, return exit_code
Finish ==
  /\ pc = "finish"
  /\ pc' = "returned"
  /\ exit_status' = exit_code % 256
  /\ Log("return")
  /\ UNCHANGED <<inVars, optVars, sigVars, devVars, handlers, killed_by, parent_status, applied,
                 wlog, locVars>>

(***************************************************************************)
(* Signals.                                                                *)
(***************************************************************************)
Alive == pc \notin {"exited", "returned", "killed"}

\* mutant: the handler leaves the exit status alone
child_handler_NoStatus(signum) ==
  IF signum = SIGUSR1
  THEN /\ pc' = "exited"
       /\ exit_status' = EXIT_SUCCESS
       /\ UNCHANGED <<slcand_running, exit_code, trigger, handler_logged>>
  ELSE IF signum \in {SIGINT, SIGTERM, SIGALRM, SIGCHLD}
  THEN /\ handler_logged' = TRUE
       /\ slcand_running' = 0
       /\ trigger' = IF slcand_running # 0 THEN signum ELSE trigger
       /\ UNCHANGED <<pc, exit_status, exit_code>>
  ELSE UNCHANGED <<pc, exit_status, slcand_running, exit_code, trigger, handler_logged>>

\* lines 100-116
child_handler(signum) ==
  IF signum = SIGUSR1
  THEN /\ pc' = "exited"
       /\ exit_status' = EXIT_SUCCESS
       /\ UNCHANGED <<slcand_running, exit_code, trigger, handler_logged>>
  ELSE IF signum \in {SIGINT, SIGTERM, SIGALRM, SIGCHLD}
  THEN /\ handler_logged' = TRUE
       /\ exit_code' = 128 + signum
       /\ slcand_running' = 0
       /\ trigger' = IF slcand_running # 0 THEN signum ELSE trigger
       /\ UNCHANGED <<pc, exit_status>>
  ELSE UNCHANGED <<pc, exit_status, slcand_running, exit_code, trigger, handler_logged>>

\* mutant: child_handler runs for signals it was never installed for
HandleSignal_Uninstalled(sig) ==
  /\ Alive
  /\ child_handler(sig)
  /\ signalled' = (signalled \/ handlers = {SIGINT, SIGTERM})
  /\ UNCHANGED <<inVars, optVars, devVars, handlers, killed_by, parent_status, applied,
                 wlog, events, locVars>>

\* a signal the process has installed child_handler for
HandleSignal(sig) ==
  /\ Alive
  /\ sig \in handlers
  /\ child_handler(sig)
  /\ signalled' = (signalled \/ handlers = {SIGINT, SIGTERM})
  /\ UNCHANGED <<inVars, optVars, devVars, handlers, killed_by, parent_status, applied, wlog, events,
                 locVars>>

\* a signal left at its default disposition that terminates the process
KillSignal(sig) ==
  /\ Alive
  /\ sig \notin handlers
  /\ sig # SIGCHLD
  /\ pc' = "killed"
  /\ killed_by' = sig
  /\ UNCHANGED <<inVars, optVars, sigVars, devVars, handlers, parent_status, applied, wlog, events,
                 locVars, exit_status>>

\* SIGCHLD at its default disposition is discarded
IgnoreSignal(sig) ==
  /\ Alive
  /\ sig \notin handlers
  /\ sig = SIGCHLD
  /\ UNCHANGED vars

\* the main flow once the arguments are parsed
Flow ==
  \/ OpenTty \/ GetAttributes \/ SaveOldConfiguration
  \/ GetSerial \/ SetSerial \/ ApplyConfiguration
  \/ WriteSpeed \/ WriteBtr \/ WriteStatus \/ WriteMode
  \/ AttachDiscipline \/ QueryName \/ Rename
  \/ Daemonize \/ InstallSigint \/ InstallSigterm
  \/ SetRunning \/ LoopTest \/ Sleep
  \/ DetachDiscipline \/ WriteClose \/ RestoreConfiguration \/ Finish

Main == GetoptStep \/ ParsePositional \/ Flow

Signal ==
  \E sig \in Signals : HandleSignal(sig) \/ KillSignal(sig) \/ IgnoreSignal(sig)

Next == Main \/ Signal

Spec == Init /\ [][Next]_vars

\* The process is scheduled: past argument parsing, the main flow is never
\* suspended for ever.  Signals come, or do not come, as the environment likes.
FairSpec == Spec /\ WF_vars(Flow)

(***************************************************************************)
(* What the command line asked for, read off argv itself.                  *)
(***************************************************************************)
Requested(o) == \E i \in DOMAIN argv.opts : argv.opts[i].opt = o

\* the argument of option o (the options explored occur at most once)
ArgOf(o) == argv.opts[CHOOSE i \in DOMAIN argv.opts : argv.opts[i].opt = o].arg

Contains(seq, x) == \E i \in DOMAIN seq : seq[i] = x

Exited == pc \in {"exited", "returned"}

\* no call has touched the device
DeviceUntouched ==
  /\ fd = -1
  /\ events = <<>>
  /\ wlog = <<>>
  /\ dev_written = <<>>
  /\ dev_tios = dev_orig.tios
  /\ dev_serial = dev_orig.serial
  /\ dev_ldisc = N_TTY

(***************************************************************************)
(* C1.  On every path on which the process exits after Line Setup changed  *)
(* the device's line configuration, the configuration at exit equals the   *)
(* original snapshot.                                                      *)
(***************************************************************************)
C1_RestoredOnEveryExit ==
  (Exited /\ applied # Uninit) => dev_tios = tios_old

(***************************************************************************)
(* C2.  In foreground mode, once both handlers are installed, every        *)
(* delivery of SIGINT or SIGTERM eventually ends the wait loop, with no    *)
(* further signal.                                                         *)
(***************************************************************************)
C2_SignalEndsWaitLoop ==
  signalled ~> (pc \notin {"set_running", "loop", "sleep"})

(***************************************************************************)
(* C3.  When main returns after a signal-triggered shutdown, the exit      *)
(* status is 128 plus the signal that ended the wait loop.                 *)
(***************************************************************************)
C3_StatusIsTriggeringSignal ==
  (pc = "returned" /\ trigger # NoSignal) => exit_status = 128 + trigger

(***************************************************************************)
(* C4.  In foreground mode, while the wait loop runs, the delivery of any  *)
(* of SIGINT, SIGTERM, SIGALRM, SIGCHLD clears the running flag and sets   *)
(* the exit status to 128 + signal, and the process lives on to Teardown.  *)
(***************************************************************************)
Running == pc \in {"loop", "sleep"} /\ slcand_running # 0

C4_FourSignalsShutDown ==
  [][\A sig \in Signals :
       (Running /\ run_as_daemon = 0 /\ (HandleSignal(sig) \/ KillSignal(sig)))
         => (slcand_running' = 0 /\ exit_code' = 128 + sig /\ pc' # "killed")]_vars

(***************************************************************************)
(* C5.  After a completed Teardown every setting Line Setup changed has    *)
(* its pre-run value: the line configuration and the low-latency flag.     *)
(***************************************************************************)
C5_AllSettingsRestored ==
  pc = "returned" =>
    /\ dev_tios = dev_orig.tios
    /\ dev_serial.low_latency = dev_orig.serial.low_latency

(***************************************************************************)
(* C6.  When setup reaches discipline attachment, the bytes written to the *)
(* device are exactly the requested commands, complete and in the fixed    *)
(* order: C\rS<code>\r, C\rs<btr>\r, F\r, then L\r or else O\r.             *)
(***************************************************************************)
ExpectedPrimer ==
  (IF Requested("s") THEN <<"C", "\r", "S">> \o ArgOf("s") \o <<"\r">> ELSE <<>>)
  \o (IF Requested("b") THEN <<"C", "\r", "s">> \o ArgOf("b") \o <<"\r">> ELSE <<>>)
  \o (IF Requested("f") THEN <<"F", "\r">> ELSE <<>>)
  \o (IF Requested("l") THEN <<"L", "\r">>
      ELSE IF Requested("o") THEN <<"O", "\r">> ELSE <<>>)

C6_PrimerBytesComplete ==
  pc = "attach" => dev_written = ExpectedPrimer

(***************************************************************************)
(* C7.  With both -l and -o only L\r is emitted and O\r never is; O\r is   *)
(* emitted only when open is requested and listen-only is not; at most one *)
(* of the two is emitted in a run.                                         *)
(***************************************************************************)
SentListen == Contains(wlog, <<"L", "\r">>)
SentOpen == Contains(wlog, <<"O", "\r">>)

C7_ListenOverridesOpen ==
  /\ (Requested("l") /\ Requested("o")) => ~SentOpen /\ ~Contains(dev_written, "O")
  /\ (Requested("l") /\ Contains(events, "attach")) => SentListen
  /\ SentOpen => (Requested("o") /\ ~Requested("l"))
  /\ Contains(dev_written, "O") => SentOpen
  /\ ~(SentOpen /\ SentListen)

C7_Witness ==
  /\ Requested("l") /\ Requested("o")
  /\ Contains(events, "attach")
  /\ SentListen
  /\ Contains(dev_written, "L")

(***************************************************************************)
(* C8.  The configuration Line Setup applies has exactly the requested     *)
(* flow control active, whatever the baseline: none of CRTSCTS, IXON,      *)
(* IXOFF without -t; only CRTSCTS with hw; only IXON and IXOFF with sw.    *)
(***************************************************************************)
C8_ExactlyRequestedFlowControl ==
  applied # Uninit =>
    LET mode == IF Requested("t") THEN ArgOf("t") ELSE NULL
    IN  /\ applied.crtscts = (mode = <<"h", "w">>)
        /\ applied.ixon = (mode = <<"s", "w">>)
        /\ applied.ixoff = (mode = <<"s", "w">>)

(***************************************************************************)
(* C9.  A command line with an invalid argument (speed code longer than    *)
(* one character, bit timing longer than 8, flow token other than hw/sw,   *)
(* rename target longer than the interface-name limit, no tty) never gets  *)
(* to the device: the process only parses, and exits with a failure.       *)
(***************************************************************************)
InvalidCommandLine ==
  \/ \E i \in DOMAIN argv.opts :
       LET o == argv.opts[i]
       IN  \/ o.opt = "s" /\ Len(o.arg) > 1
           \/ o.opt = "b" /\ Len(o.arg) > 8
           \/ o.opt = "t" /\ o.arg \notin {<<"h", "w">>, <<"s", "w">>}
  \/ Len(argv.pos) = 0
  \/ Len(argv.pos) >= 2 /\ Len(argv.pos[2]) > IFNAMSIZ - 1

C9_InvalidArgumentsRejected ==
  InvalidCommandLine =>
    /\ DeviceUntouched
    /\ pc \in {"getopt", "positional", "exited", "killed"}
    /\ pc = "exited" => exit_status = EXIT_FAILURE

C9_Witness ==
  /\ pc = "exited"
  /\ exit_status = EXIT_FAILURE
  /\ Len(argv.pos) = 2
  /\ Len(argv.pos[2]) = IFNAMSIZ
  /\ optind = Len(argv.opts) + 1

(***************************************************************************)
(* C10.  A -S value above 6,000,000 is rejected before the device is       *)
(* opened, and an applied configuration carries the requested integer as   *)
(* input and output speed, within 0..6,000,000.                            *)
(***************************************************************************)
Pow10x == [k \in 0..7 |-> IF k = 0 THEN 1 ELSE IF k <= 4 THEN Pow10[k] ELSE Pow10[4] * Pow10[k - 4]]

\* the decimal digits of a natural number below 10^8
Decimal(n) ==
  LET len == Cardinality({k \in 1..7 : n >= Pow10x[k]}) + 1
  IN  [j \in 1..len |-> DigitChars[((n \div Pow10x[len - j]) % 10) + 1]]

\* of two numerals of the same length, a denotes the greater number
DigitsGreater(a, b) ==
  \E i \in DOMAIN a :
    /\ DigitVal(a[i]) > DigitVal(b[i])
    /\ \A j \in 1..(i - 1) : a[j] = b[j]

AboveCeiling(numeral) ==
  /\ numeral[1] \notin {"-", "0"}
  /\ \/ Len(numeral) > 7
     \/ Len(numeral) = 7 /\ DigitsGreater(numeral, Decimal(6000000))

\* the value of a 32-bit speed that is at most 6000000, as a numeral
SpeedNumeral(u) == Decimal(u[2] * B16 + u[1])

C10_SpeedIsRequestedAndBounded ==
  Requested("S") =>
    /\ AboveCeiling(ArgOf("S")) => DeviceUntouched
    /\ applied # Uninit =>
         /\ ~ExceedsMaxSpeed(applied.ispeed)
         /\ SpeedNumeral(applied.ispeed) = ArgOf("S")
         /\ applied.ospeed = applied.ispeed

(***************************************************************************)
(* The order of the calls, read off the log of calls.                      *)
(***************************************************************************)
LastEvent == events[Len(events)]

\* every occurrence of b comes after an occurrence of a
Precedes(a, b) ==
  \A j \in DOMAIN events :
    events[j] = b => \E i \in 1..(j - 1) : events[i] = a

\* no occurrence of a comes after an occurrence of b
NeverAfter(a, b) ==
  \A i, j \in DOMAIN events :
    (events[i] = b /\ events[j] = a) => j < i

AtMostOnce(e) == Cardinality({i \in DOMAIN events : events[i] = e}) <= 1

TeardownEvents == {"detach", "detach!", "write_C", "write_C!", "restore", "restore!"}

PrimerWrites == {"write_S", "write_S!", "write_s", "write_s!", "write_F", "write_F!",
                 "write_L", "write_L!", "write_O", "write_O!"}

TeardownStarted == Contains(events, "stopping")

(***************************************************************************)
(* C11.  Once Teardown has started, the process does not exit before the   *)
(* original snapshot was reapplied to the device, whatever fails on the    *)
(* way (the discipline detach, the write of the close command).            *)
(***************************************************************************)
C11_SnapshotReappliedOnceTeardownStarted ==
  (Exited /\ TeardownStarted) =>
    (Contains(events, "restore") \/ Contains(events, "restore!"))

(***************************************************************************)
(* C12.  Teardown runs in one order: after the wait loop has ended the     *)
(* discipline is set back to N_TTY, then C\r is written if and only if -c  *)
(* was given, then the snapshot is reapplied.  The close command is handed *)
(* to write once at most, after the detach and before the restore.         *)
(***************************************************************************)
C12_TeardownOrder ==
  /\ \A e \in TeardownEvents : Precedes("stopping", e) /\ AtMostOnce(e)
  /\ \A e \in TeardownEvents \ {"detach", "detach!"} : Precedes("detach", e)
  /\ Contains(events, "detach") => dev_ldisc = N_TTY
  /\ \A e \in {"write_C", "write_C!"} :
       /\ Contains(events, e) => Requested("c")
       /\ NeverAfter(e, "restore") /\ NeverAfter(e, "restore!")
  /\ \A e \in {"restore", "restore!"} :
       Contains(events, e) => (Requested("c") <=> Contains(events, "write_C"))
  /\ \A i \in DOMAIN wlog :
       wlog[i] = CloseCommand =>
         /\ i = Len(wlog)
         /\ Contains(events, "detach")
         /\ dev_ldisc = N_TTY
         /\ Contains(events, "write_C") \/ Contains(events, "write_C!")

C12_Witness ==
  /\ pc = "returned"
  /\ Requested("c")
  /\ wlog = <<OpenCommand, CloseCommand>>
  /\ dev_tios = tios_old

(***************************************************************************)
(* C13.  Setup runs in one order: the snapshot is read before any call     *)
(* that changes the device, so that it holds the settings the run started  *)
(* with; the primer commands are written after the configuration was       *)
(* applied and before the discipline is attached; the name is queried      *)
(* after a successful attach, a rename is attempted after a successful     *)
(* query, and the wait loop is entered after all of these.                 *)
(***************************************************************************)
MutatingEvents == {"tiocsserial", "tiocsserial!", "tcsets2", "tcsets2!",
                   "attach", "attach!"} \cup PrimerWrites

RenameEvents == {"socket!", "rename", "rename!"}

C13_SetupOrder ==
  /\ \A e \in MutatingEvents : Precedes("snapshot", e)
  /\ Contains(events, "snapshot") => tios_old = dev_orig.tios
  /\ \A w \in PrimerWrites :
       /\ Precedes("tcsets2", w)
       /\ NeverAfter(w, "attach") /\ NeverAfter(w, "attach!")
  /\ Precedes("attach", "ifname") /\ Precedes("attach", "ifname!")
  /\ \A r \in RenameEvents : Precedes("ifname", r)
  /\ \A e \in {"snapshot", "tcsets2", "attach", "ifname"} : Precedes(e, "run")
  /\ Contains(events, "run") =>
       /\ speed # NULL => Contains(events, "write_S")
       /\ btr # NULL => Contains(events, "write_s")
       /\ send_read_status_flags # 0 => Contains(events, "write_F")
       /\ send_listen # 0 => Contains(events, "write_L")
       /\ (send_open # 0 /\ send_listen = 0) => Contains(events, "write_O")
       /\ name # NULL => \E r \in {"socket!", "rename"} : Contains(events, r)
       /\ \A e \in MutatingEvents \cup RenameEvents \cup {"ifname"} :
            NeverAfter(e, "run")

C13_Witness ==
  /\ pc = "loop"
  /\ Contains(events, "tiocsserial")
  /\ Contains(events, "write_O")
  /\ Contains(events, "rename")
  /\ netdev = name

(***************************************************************************)
(* C14.  A failed setup call (open, either configuration read, the apply,  *)
(* a primer write, the attach, the name query, the rename ioctl, daemon)   *)
(* ends the process at once with status 1 and without any Teardown call;  *)
(* of these only the failed apply closes the descriptor first.             *)
(***************************************************************************)
SetupFailures == {"open!", "tcgets2!", "snapshot!", "tcsets2!", "write_S!", "write_s!",
                  "write_F!", "write_L!", "write_O!", "attach!", "ifname!", "rename!",
                  "daemon!"}

C14_SetupFailureExitsWithoutTeardown ==
  (events # <<>> /\ LastEvent \in SetupFailures) =>
    /\ pc = "exited"
    /\ exit_status = EXIT_FAILURE
    /\ ~TeardownStarted
    /\ \A e \in TeardownEvents : ~Contains(events, e)
    /\ dev_ldisc = (IF Contains(events, "attach") THEN N_SLCAN ELSE N_TTY)
    /\ applied # Uninit => dev_tios = applied
    /\ LastEvent # "open!" => (fd = -1 <=> LastEvent = "tcsets2!")

C14_Witness ==
  /\ pc = "exited"
  /\ events # <<>>
  /\ LastEvent = "attach!"
  /\ fd # -1
  /\ dev_tios = applied
  /\ dev_tios # tios_old

(***************************************************************************)
(* C15.  With a rename target, the wait loop is reached only when the      *)
(* rename was made and the interface carries the requested name: every     *)
(* failure on the rename path, that of socket() included, ends the run.    *)
(***************************************************************************)
C15_RenameFailureIsFatal ==
  (name # NULL /\ pc \in {"loop", "sleep"}) =>
    (Contains(events, "rename") /\ netdev = name)

(***************************************************************************)
(* C16.  In background mode no handler is ever installed; once daemon()    *)
(* has returned, the running flag is never cleared, the wait loop never    *)
(* ends, no Teardown call is made and the process never exits: it ends     *)
(* only by a signal that kills it.                                         *)
(***************************************************************************)
Background == Contains(events, "daemon")

C16_BackgroundNeverTearsDown ==
  /\ run_as_daemon # 0 => handlers = {}
  /\ Background =>
       /\ handlers = {}
       /\ ~handler_logged
       /\ pc \in {"set_running", "loop", "sleep", "killed"}
       /\ Contains(events, "run") => slcand_running = 1
       /\ ~TeardownStarted
       /\ \A e \in TeardownEvents : ~Contains(events, e)
       /\ exit_status = NoStatus
       /\ pc = "killed" => killed_by \in Signals \ {SIGCHLD}

C16_Witness ==
  /\ Background
  /\ Contains(events, "run")
  /\ pc = "killed"
  /\ killed_by = SIGTERM
  /\ dev_ldisc = N_SLCAN

(***************************************************************************)
(* C17.  The signal handler sets the running flag and the exit status and  *)
(* does nothing else: no handled signal makes it call the logger or any    *)
(* other output operation.                                                 *)
(***************************************************************************)
C17_HandlerDoesNoIO ==
  [][\A sig \in Signals : HandleSignal(sig) => ~handler_logged']_vars

(***************************************************************************)
(* C18.  Once the handlers are installed, no step of the main flow writes  *)
(* the running flag or the pending exit status.                            *)
(***************************************************************************)
C18_MainNeverWritesFlags ==
  [][(Flow /\ handlers = {SIGINT, SIGTERM}) => UNCHANGED <<slcand_running, exit_code>>]_vars

(***************************************************************************)
(* C19.  Neither TIOCGSERIAL nor TIOCSSERIAL ends the run, whether it      *)
(* succeeds or fails: the flow goes on to TCSETS2, and the configuration   *)
(* applied there is fixed by the baseline and the options alone.           *)
(***************************************************************************)
SerialEvents == {"tiocgserial", "tiocgserial!", "tiocsserial", "tiocsserial!"}

C19_LowLatencyNeverFatal ==
  /\ (events # <<>> /\ LastEvent \in SerialEvents) =>
       /\ pc \in {"tiocsserial", "tcsets2", "killed"}
       /\ exit_status = NoStatus
       /\ tios = dev_orig.tios
       /\ dev_tios = dev_orig.tios
  /\ \A e \in {"tcsets2", "tcsets2!"} :
       Contains(events, e) =>
         /\ \E g \in {"tiocgserial", "tiocgserial!"} : Contains(events, g)
         /\ \E t \in {"tiocsserial", "tiocsserial!"} : Contains(events, t)
  /\ applied # Uninit => applied = AssembleTios(dev_orig.tios, uart_speed, flow_type)

C19_Witness ==
  /\ Contains(events, "tiocgserial!")
  /\ Contains(events, "tiocsserial!")
  /\ Contains(events, "tcsets2")
  /\ applied = AssembleTios(dev_orig.tios, uart_speed, flow_type)
  /\ dev_tios = applied

(***************************************************************************)
(* C20.  The main flow never exits with status 0: the wait loop ends only  *)
(* after child_handler ran for SIGINT or SIGTERM, and main then returns    *)
(* 128 + SIGINT or 128 + SIGTERM.                                          *)
(***************************************************************************)
C20_NeverExitsWithZero ==
  /\ Exited => exit_status # EXIT_SUCCESS
  /\ TeardownStarted =>
       /\ trigger \in {SIGINT, SIGTERM}
       /\ handler_logged
       /\ exit_code \in {128 + SIGINT, 128 + SIGTERM}
  /\ pc = "returned" => exit_status \in {128 + SIGINT, 128 + SIGTERM}

C20_Witness ==
  /\ pc = "returned"
  /\ trigger = SIGTERM
  /\ exit_status = 128 + SIGTERM

=============================================================================
